---- MODULE Spec2Model ----
(***************************************************************************)
(* Model of squidpy/image/segment.py: segment() (tiling, per-tile backend, *)
(* relabeling loop, merge, store) and segment_crops() (centroid crops).    *)
(*                                                                         *)
(* An image is a function from pixel coordinates <<y, x>> to integers.     *)
(* A Python Optional value is a set with at most one element: {} is None.  *)
(* The image container is a function from its keys to images.              *)
(***************************************************************************)
EXTENDS Integers, Sequences, FiniteSets, TLC

\* Number of pixels of the images in the container.
NPix == 4
\* Largest label a backend numbers a region with inside one tile.
MaxLocal == 2

VARIABLES
    pc,         \* position inside segment(): idle, crop, backend, relabel, merge, done, raised
    shape,      \* img.shape as <<height, width>>
    data,       \* img.data: key -> image
    args,       \* the arguments of the running call
    model,      \* segmentation_model: the class selected and its self.model
    crops,      \* the list `crops`: source tiles, then the backend's masks
    xcoord,     \* x origin of every tile
    ycoord,     \* y origin of every tile
    masks,      \* the list the comprehension of line 228 is building
    counter,    \* the relabeling counter
    i,          \* number of tiles the relabeling loop has processed
    err,        \* the exception that left the call, or "none"
    ret,        \* the value returned
    raw,        \* history: the backend's masks as returned, before any offset
    hist,       \* history: the counter after each processed tile
    data0,      \* history: img.data when the call started
    failed_at   \* history: the tile whose backend invocation raised, or 0

vars == <<pc, shape, data, args, model, crops, xcoord, ycoord, masks,
          counter, i, err, ret, raw, hist, data0, failed_at>>

----------------------------------------------------------------------------
\* Values

None == {}
Some(v) == {v}
The(o) == CHOOSE v \in o : TRUE

Shapes == {s \in (1..NPix) \X (1..NPix) : s[1] * s[2] = NPix}
Pixels(s) == (0..(s[1] - 1)) \X (0..(s[2] - 1))
Divisors(n) == {d \in 1..n : n % d = 0}

\* Labels a backend may put in a tile's mask: 0 is background; MaxLocal + 2
\* gives masks whose labels are not dense.
LocalLabels == (0..MaxLocal) \cup {MaxLocal + 2}

ModelGroups == {"skimage_blob", "watershed", "tensorflow", "nonexistent", "Watershed"}
ModelInstances == {"log", "keras_model"}
KeysAdded == {None, Some("nuclei"), Some("image")}

SourceImage(s) == [p \in Pixels(s) |-> 10 + p[1] + p[2]]
BlankMask(s) == [p \in Pixels(s) |-> 0]

\* Sum of one axis (1 or 2) of a set of index tuples
RECURSIVE SumAxis(_, _)
SumAxis(idx, axis) ==
    IF idx = {} THEN 0
    ELSE LET p == CHOOSE p \in idx : TRUE IN p[axis] + SumAxis(idx \ {p}, axis)

\* np.max of an array
NpMax(x) == CHOOSE m \in {x[p] : p \in DOMAIN x} : \A q \in DOMAIN x : x[q] <= m

\* str.lower on the strings that occur
Lower(s) == CASE s = "Watershed" -> "watershed"
              [] OTHER -> s

----------------------------------------------------------------------------
\* The image container and the crop helpers (squidpy.image.object, .crop)

\* ImageContainer.crop_equally: equal tiles in grid order with their origins;
\* a size of None takes the whole extent. Crops are value copies.
CropEqually(img, shp, xs, ys) ==
    LET tw == IF xs = None THEN shp[2] ELSE The(xs)
        th == IF ys = None THEN shp[1] ELSE The(ys)
        nx == shp[2] \div tw
        ny == shp[1] \div th
        X(k) == ((k - 1) % nx) * tw
        Y(k) == ((k - 1) \div nx) * th
    IN  [crops  |-> [k \in 1..(nx * ny) |->
                        [p \in Pixels(<<th, tw>>) |-> img[<<Y(k) + p[1], X(k) + p[2]>>]]],
         xcoord |-> [k \in 1..(nx * ny) |-> X(k)],
         ycoord |-> [k \in 1..(nx * ny) |-> Y(k)]]

\* uncrop_img: every tile placed at its origin on a blank canvas of `shp`.
UncropImg(cs, x, y, shp) ==
    [p \in Pixels(shp) |->
        LET covering == {k \in 1..Len(cs) :
                            <<p[1] - y[k], p[2] - x[k]>> \in DOMAIN cs[k]}
        IN  IF covering = {} THEN 0
            ELSE LET k == CHOOSE k \in covering : TRUE
                 IN  cs[k][<<p[1] - y[k], p[2] - x[k]>>]]

\* ImageContainer.add_img: the image is stored under the key.
AddImg(d, key, img) ==
    [k \in (DOMAIN d) \cup {key} |-> IF k = key THEN img ELSE d[k]]

\* ImageContainer.crop: the crop of img_id of size xs, ys centred at x, y.
Crop(x, y, xs, ys, img_id) ==
    [x |-> x, y |-> y, xs |-> xs, ys |-> ys, img_id |-> img_id]

----------------------------------------------------------------------------
\* segment(): selection of the segmentation model

\* SegmentationModelPretrainedTensorflow.__init__: the assertion on the handle
TensorflowInit(model_instance) ==
    IF model_instance = "keras_model"
    THEN [cls |-> "tensorflow", model |-> model_instance, err |-> "none"]
    ELSE [cls |-> "none", model |-> model_instance, err |-> "AssertionError"]

\* Variant: a chain whose last branch is a default instead of an error
SelectModelFallthrough(model_group, model_instance) ==
    IF model_group = "skimage_blob"
    THEN [cls |-> "blob", model |-> model_instance, err |-> "none"]
    ELSE IF model_group = "tensorflow"
    THEN TensorflowInit(model_instance)
    ELSE [cls |-> "watershed", model |-> model_instance, err |-> "none"]

\* the if/elif chain on model_group
SelectModel(model_group, model_instance) ==
    IF model_group = "skimage_blob"
    THEN [cls |-> "blob", model |-> model_instance, err |-> "none"]
    ELSE IF model_group = "watershed"
    THEN [cls |-> "watershed", model |-> model_instance, err |-> "none"]
    ELSE IF model_group = "tensorflow"
    THEN TensorflowInit(model_instance)
    ELSE [cls |-> "none", model |-> model_instance, err |-> "ValueError: model instance"]

\* SegmentationModelBlob._segment: whether self.model names a detector
BlobRecognized(m) == m \in {"log", "dog", "doh"}

\* Whether the selected model's _segment can return for a tile at all
CanSegment(m) == m.cls = "blob" => BlobRecognized(m.model)

\* The exception a failing backend invocation raises
BackendError(m) ==
    IF m.cls = "blob" /\ ~BlobRecognized(m.model)
    THEN "ValueError: self.model"
    ELSE "BackendError"

----------------------------------------------------------------------------
\* segment(): the relabeling loop

\* Variant: the offset added to every pixel, background included
RelabelMaskAll(x, c) == [p \in DOMAIN x |-> x[p] + c]

\* crop_new[crop_new > 0] = crop_new[crop_new > 0] + counter
RelabelMask(x, c) == [p \in DOMAIN x |-> IF x[p] > 0 THEN x[p] + c ELSE x[p]]

\* Variant: counter = local maximum, instead of counter += maximum
CounterAfterAssign(x, c) == NpMax(x)

\* Variant: the counter advanced by the number of distinct regions of the tile
CounterAfterCount(x, c) == c + Cardinality({x[p] : p \in DOMAIN x} \ {0})

\* counter += np.max(x), where x is the array the line before wrote into
\* (crop_new = x binds a second name to the same array)
CounterAfter(x, c) == c + NpMax(RelabelMask(x, c))

\* Variant: key_added ignored
OutputKeyDerived(model_group, key_added) == "segmented_" \o Lower(model_group)

\* Variant: the reassignment of img_id lost, the source's key is kept
OutputKeyImage(model_group, key_added) == "image"

\* "segmented_" + model_group.lower() if key_added is None else key_added
OutputKey(model_group, key_added) ==
    IF key_added = None THEN "segmented_" \o Lower(model_group) ELSE The(key_added)

----------------------------------------------------------------------------
\* segment_crops()

\* Variant: the background label not removed
LabelValuesKeepZero(lm) == {lm[p] : p \in DOMAIN lm}

\* set(np.unique(label map)) - {0}
LabelValues(lm) == {lm[p] : p \in DOMAIN lm} \ {0}

\* np.sort of a list of distinct values
RECURSIVE NpSort(_)
NpSort(S) == IF S = {} THEN <<>>
             ELSE LET lo == CHOOSE v \in S : \A u \in S : v <= u
                  IN  <<lo>> \o NpSort(S \ {lo})

\* np.where(label map == l): the index tuples of the pixels carrying l
NpWhere(lm, l) == {p \in DOMAIN lm : lm[p] = l}

\* np.mean of one axis (1 or 2) of the indexes, as the exact fraction num/den;
\* an index that occurs in several pixels counts once per pixel
NpMean(idx, axis) ==
    [num |-> SumAxis(idx, axis), den |-> Cardinality(idx)]

\* Variant: rounding to the nearest integer, halves upward
PyIntRound(m) == (2 * m.num + m.den) \div (2 * m.den)

\* int() of a float: truncation toward zero
PyInt(m) == IF m.num >= 0 THEN m.num \div m.den ELSE 0 - ((0 - m.num) \div m.den)

\* the list segment_crops returns
SegmentCropsResult(d, img_id, segmented_img_id, xs, ys) ==
    LET lm == d[segmented_img_id]
        labels == NpSort(LabelValues(lm))
        segment_centres ==
            [k \in 1..Len(labels) |->
                <<NpMean(NpWhere(lm, labels[k]), 1), NpMean(NpWhere(lm, labels[k]), 2)>>]
    IN  [k \in 1..Len(labels) |->
            Crop(PyInt(segment_centres[k][1]), PyInt(segment_centres[k][2]), xs, ys, img_id)]

----------------------------------------------------------------------------
\* State machine

TileSizes(n) == {None} \cup {Some(d) : d \in Divisors(n) \ {n}}

NoArgs == [img_id |-> "image", model_group |-> "none", model_instance |-> "none",
           key_added |-> None, xs |-> None, ys |-> None]
NoModel == [cls |-> "none", model |-> "none", err |-> "none"]

\* A container holding the source image and, possibly, an earlier segmentation.
Containers(s) ==
    { [k \in {"image"} |-> SourceImage(s)],
      [k \in {"image", "segmented_watershed"} |->
          IF k = "image" THEN SourceImage(s) ELSE BlankMask(s)] }

InitCall ==
    /\ pc = "idle"
    /\ args = NoArgs
    /\ model = NoModel
    /\ crops = <<>>
    /\ xcoord = <<>>
    /\ ycoord = <<>>
    /\ masks = <<>>
    /\ counter = 0
    /\ i = 0
    /\ err = "none"
    /\ ret = "unset"
    /\ raw = <<>>
    /\ hist = <<>>
    /\ data0 = data
    /\ failed_at = 0

Init ==
    /\ shape \in Shapes
    /\ data \in Containers(shape)
    /\ InitCall

\* segment(), lines 216-224: the call starts and the model is selected.
Dispatch ==
    /\ pc = "idle"
    /\ \E model_group \in ModelGroups, model_instance \in ModelInstances,
          key_added \in KeysAdded,
          xs \in TileSizes(shape[2]), ys \in TileSizes(shape[1]) :
          LET m == SelectModel(model_group, model_instance)
          IN  /\ args' = [img_id |-> "image", model_group |-> model_group,
                          model_instance |-> model_instance, key_added |-> key_added,
                          xs |-> xs, ys |-> ys]
              /\ model' = m
              /\ IF m.err # "none"
                 THEN pc' = "raised" /\ err' = m.err
                 ELSE pc' = "crop" /\ err' = err
    /\ data0' = data
    /\ UNCHANGED <<shape, data, crops, xcoord, ycoord, masks, counter, i, ret,
                   raw, hist, failed_at>>

\* line 226: the image is tiled.
Tile ==
    /\ pc = "crop"
    /\ LET t == CropEqually(data[args.img_id], shape, args.xs, args.ys)
       IN  /\ crops' = t.crops
           /\ xcoord' = t.xcoord
           /\ ycoord' = t.ycoord
    /\ masks' = <<>>
    /\ pc' = "backend"
    /\ UNCHANGED <<shape, data, args, model, counter, i, err, ret, raw, hist,
                   data0, failed_at>>

\* line 228, one element of the comprehension: the backend returns a mask of
\* the tile's shape. After the last tile the list is bound to `crops` and the
\* counter is set to 0 (line 232).
BackendTile ==
    /\ pc = "backend"
    /\ Len(masks) < Len(crops)
    /\ CanSegment(model)
    /\ \E m \in [DOMAIN crops[Len(masks) + 1] -> LocalLabels] :
          LET ms == Append(masks, m)
          IN  IF Len(ms) = Len(crops)
              THEN /\ crops' = ms
                   /\ raw' = ms
                   /\ masks' = <<>>
                   /\ counter' = 0
                   /\ i' = 0
                   /\ hist' = <<>>
                   /\ pc' = "relabel"
              ELSE /\ masks' = ms
                   /\ UNCHANGED <<crops, raw, counter, i, hist, pc>>
    /\ UNCHANGED <<shape, data, args, model, xcoord, ycoord, err, ret, data0,
                   failed_at>>

\* Variant: the exception is swallowed and the tile gets a blank mask.
BackendFailSwallowed ==
    /\ pc = "backend"
    /\ Len(masks) < Len(crops)
    /\ failed_at' = Len(masks) + 1
    /\ LET ms == Append(masks, [p \in DOMAIN crops[Len(masks) + 1] |-> 0])
       IN  IF Len(ms) = Len(crops)
           THEN /\ crops' = ms
                /\ raw' = ms
                /\ masks' = <<>>
                /\ pc' = "relabel"
           ELSE /\ masks' = ms
                /\ UNCHANGED <<crops, raw, pc>>
    /\ UNCHANGED <<shape, data, args, model, xcoord, ycoord, counter, i, err,
                   ret, hist, data0>>

\* line 228: the backend raises on a tile; nothing catches it, the call ends.
BackendFail ==
    /\ pc = "backend"
    /\ Len(masks) < Len(crops)
    /\ failed_at' = Len(masks) + 1
    /\ err' = BackendError(model)
    /\ pc' = "raised"
    /\ UNCHANGED <<shape, data, args, model, crops, xcoord, ycoord, masks,
                   counter, i, ret, raw, hist, data0>>

\* lines 233-237: one iteration of the relabeling loop.
RelabelTile ==
    /\ pc = "relabel"
    /\ i < Len(crops)
    /\ LET x == crops[i + 1]
       IN  /\ crops' = [crops EXCEPT ![i + 1] = RelabelMask(x, counter)]
           /\ counter' = CounterAfter(x, counter)
           /\ hist' = Append(hist, CounterAfter(x, counter))
    /\ i' = i + 1
    /\ UNCHANGED <<pc, shape, data, args, model, xcoord, ycoord, masks, err,
                   ret, raw, data0, failed_at>>

\* lines 238-240: the tiles are merged and the result is stored; returns None.
Merge ==
    /\ pc = "relabel"
    /\ i = Len(crops)
    /\ LET img_segmented == UncropImg(crops, xcoord, ycoord, shape)
           img_id == OutputKey(args.model_group, args.key_added)
       IN  data' = AddImg(data, img_id, img_segmented)
    /\ ret' = "None"
    /\ pc' = "done"
    /\ UNCHANGED <<shape, args, model, crops, xcoord, ycoord, masks, counter,
                   i, err, raw, hist, data0, failed_at>>

Next ==
    \/ Dispatch
    \/ Tile
    \/ BackendTile
    \/ BackendFail
    \/ RelabelTile
    \/ Merge

Spec == Init /\ [][Next]_vars

----------------------------------------------------------------------------
\* segment_crops() on a container holding an image and a label map

CropContainers(s) ==
    { [k \in {"image", "segmented"} |-> IF k = "image" THEN SourceImage(s) ELSE lm] :
        lm \in [Pixels(s) -> LocalLabels] }

InitCrops ==
    /\ shape \in Shapes
    /\ data \in CropContainers(shape)
    /\ InitCall

\* segment_crops(), lines 270-277.
SegmentCrops ==
    /\ pc = "idle"
    /\ \E xs \in {None, Some(2)}, ys \in {None} :
          /\ args' = [img_id |-> "image", segmented_img_id |-> "segmented",
                      xs |-> xs, ys |-> ys]
          /\ ret' = SegmentCropsResult(data, "image", "segmented", xs, ys)
    /\ pc' = "done"
    /\ UNCHANGED <<shape, data, model, crops, xcoord, ycoord, masks, counter, i,
                   err, raw, hist, data0, failed_at>>

NextCrops == SegmentCrops

SpecCrops == InitCrops /\ [][NextCrops]_vars

----------------------------------------------------------------------------
\* Properties of the relabeling loop

\* the nonzero labels of a mask
NonzeroLabels(m) == {m[p] : p \in DOMAIN m} \ {0}

\* a mask whose regions are numbered 1..k
Dense(m) == NonzeroLabels(m) = 1..Cardinality(NonzeroLabels(m))

\* the relabeling loop has processed the first i tiles
Relabeling == pc \in {"relabel", "done"}
RelabelingDone == Relabeling /\ i = Len(crops)

\* sum of the local maxima of the backend's masks 1..k
RECURSIVE SumLocalMax(_)
SumLocalMax(k) == IF k = 0 THEN 0 ELSE NpMax(raw[k]) + SumLocalMax(k - 1)

\* C1: once the relabeling loop has processed all tiles, and every backend
\* mask was numbered 1..k locally, the nonzero labels of two distinct tiles
\* are disjoint.
C1_TileLabelsDisjoint ==
    (RelabelingDone /\ \A k \in 1..Len(raw) : Dense(raw[k]))
        => \A j, k \in 1..Len(crops) :
              j # k => NonzeroLabels(crops[j]) \cap NonzeroLabels(crops[k]) = {}

\* several tiles, each with regions numbered densely, one with two regions,
\* all relabeled
C1_Witness ==
    /\ RelabelingDone
    /\ Len(crops) >= 2
    /\ \A k \in 1..Len(raw) : Dense(raw[k]) /\ NonzeroLabels(raw[k]) # {}
    /\ \E k \in 1..Len(raw) : Cardinality(NonzeroLabels(raw[k])) >= 2

\* C2: the counter is the running total of the local (pre-offset) maxima:
\* after tile k it equals the sum of the local maxima of tiles 1..k, and the
\* offset added to the positive labels of tile k is the sum of the local
\* maxima of the earlier tiles.
C2_CounterIsRunningTotal ==
    Relabeling =>
        /\ counter = SumLocalMax(i)
        /\ \A k \in 1..i :
              /\ hist[k] = SumLocalMax(k)
              /\ \A p \in DOMAIN raw[k] :
                    raw[k][p] > 0 => crops[k][p] = raw[k][p] + SumLocalMax(k - 1)

\* C9: relabeling keeps every tile's segmentation: background stays 0,
\* positive stays positive, and two pixels of a tile share a label afterwards
\* exactly when they shared one before.
C9_RelabelPreservesSegmentation ==
    Relabeling =>
        \A k \in 1..i : \A p, q \in DOMAIN raw[k] :
            /\ raw[k][p] = 0 => crops[k][p] = 0
            /\ raw[k][p] > 0 => crops[k][p] > 0
            /\ (crops[k][p] = crops[k][q]) <=> (raw[k][p] = raw[k][q])

\* a tile relabeled with a positive offset that holds background and a region
C9_Witness ==
    /\ Relabeling
    /\ \E k \in 2..i :
          /\ hist[k - 1] > 0
          /\ \E p \in DOMAIN raw[k] : raw[k][p] = 0
          /\ \E p \in DOMAIN raw[k] : raw[k][p] > 0

\* C10: after each tile the counter is at least every label assigned so far,
\* for any non-negative masks; an all-zero tile leaves the counter unchanged;
\* every positive label of a later tile exceeds every label of an earlier one.
C10_CounterBoundsLabels ==
    Relabeling =>
        \A k \in 1..i :
            /\ \A j \in 1..k : \A p \in DOMAIN crops[j] : hist[k] >= crops[j][p]
            /\ NonzeroLabels(raw[k]) = {} => hist[k] = (IF k = 1 THEN 0 ELSE hist[k - 1])
            /\ \A j \in 1..(k - 1) : \A p \in DOMAIN crops[j] : \A q \in DOMAIN crops[k] :
                  crops[k][q] > 0 => crops[k][q] > crops[j][p]

\* a tile with non-dense labels, then an all-zero tile, then a tile with regions
C10_Witness ==
    /\ RelabelingDone
    /\ \E a, b, c \in 1..Len(raw) :
          /\ a < b /\ b < c
          /\ ~Dense(raw[a])
          /\ NonzeroLabels(raw[b]) = {}
          /\ NonzeroLabels(raw[c]) # {}

----------------------------------------------------------------------------
\* Properties of the whole call of segment()

\* the key the caller asked for: key_added, or "segmented_" and the family name
RequestedKey ==
    IF args.key_added = None THEN "segmented_" \o args.model_group
    ELSE The(args.key_added)

\* C3: a call whose model_group is none of the three families raises the
\* configuration error before the image is tiled and before any tile reaches
\* a backend, and leaves the container as it was.
C3_UnknownGroupRaisesFirst ==
    (pc # "idle" /\ args.model_group \notin {"skimage_blob", "watershed", "tensorflow"})
        => /\ pc = "raised"
           /\ err = "ValueError: model instance"
           /\ crops = <<>> /\ xcoord = <<>> /\ ycoord = <<>>
           /\ masks = <<>> /\ raw = <<>> /\ failed_at = 0
           /\ ret = "unset"
           /\ data = data0

\* a call with an unknown family has raised
C3_Witness ==
    /\ pc = "raised"
    /\ args.model_group = "nonexistent"
    /\ "segmented_watershed" \in DOMAIN data0

\* C4: when the backend raises on a tile (first, middle or last), the call
\* ends with that exception, nothing further runs, nothing is returned and
\* the container holds what it held before the call.
C4_BackendFailureAborts ==
    failed_at # 0
        => /\ pc = "raised"
           /\ err \in {"BackendError", "ValueError: self.model"}
           /\ ret = "unset"
           /\ data = data0
           /\ ~ENABLED Next

\* the backend raised on a middle tile, after the first tile was segmented
C4_Witness ==
    /\ failed_at > 1
    /\ failed_at < Len(crops)
    /\ Len(masks) = failed_at - 1
    /\ pc = "raised"

\* C5: a successful call whose output key is not a key the container already
\* had leaves every earlier entry, the source image included, unchanged, and
\* the container holds the output key.
C5_SourceNotMutated ==
    (pc = "done" /\ RequestedKey \notin DOMAIN data0)
        => /\ RequestedKey \in DOMAIN data
           /\ \A k \in DOMAIN data0 : k \in DOMAIN data /\ data[k] = data0[k]
           /\ data[args.img_id] = SourceImage(shape)

\* a successful call under a new key whose mask has regions
C5_Witness ==
    /\ pc = "done"
    /\ RequestedKey \notin DOMAIN data0
    /\ "segmented_watershed" \in DOMAIN data0
    /\ \E p \in DOMAIN data[RequestedKey] : data[RequestedKey][p] > 0

----------------------------------------------------------------------------
\* Properties of segment_crops()

\* the call of segment_crops() has returned
CropsReturned == pc = "done" /\ "segmented_img_id" \in DOMAIN args

\* the label map the call read
LabelMap == data[args.segmented_img_id]

\* the nonzero label values of the label map
Regions == {LabelMap[p] : p \in DOMAIN LabelMap} \ {0}

\* position of label l among the nonzero labels in ascending order
Rank(l) == Cardinality({u \in Regions : u <= l})

\* the pixels of region l
RegionPixels(l) == {p \in DOMAIN LabelMap : LabelMap[p] = l}

\* sum of the row (axis 1) or column (axis 2) indexes of the pixels of region l
RECURSIVE IndexSum(_, _)
IndexSum(P, axis) ==
    IF P = {} THEN 0
    ELSE LET p == CHOOSE p \in P : TRUE IN p[axis] + IndexSum(P \ {p}, axis)

\* C7: one crop per distinct nonzero label, in ascending label order (the
\* crop at the rank of a label lies within that region's bounding box);
\* label 0 yields no crop; a map without nonzero labels yields no crops.
C7_OneCropPerLabelAscending ==
    CropsReturned
        => /\ Len(ret) = Cardinality(Regions)
           /\ Regions = {} => ret = <<>>
           /\ \A l \in Regions :
                 /\ \E p \in RegionPixels(l) : p[1] <= ret[Rank(l)].x
                 /\ \E p \in RegionPixels(l) : p[1] >= ret[Rank(l)].x
                 /\ \E p \in RegionPixels(l) : p[2] <= ret[Rank(l)].y
                 /\ \E p \in RegionPixels(l) : p[2] >= ret[Rank(l)].y
                 /\ ret[Rank(l)].img_id = args.img_id
                 /\ ret[Rank(l)].xs = args.xs
                 /\ ret[Rank(l)].ys = args.ys

\* a label map with background and two regions whose labels are not dense
C7_Witness ==
    /\ CropsReturned
    /\ Cardinality(Regions) >= 2
    /\ Regions # 1..Cardinality(Regions)
    /\ \E p \in DOMAIN LabelMap : LabelMap[p] = 0

====
